---- MODULE Spec2Model ----
(***************************************************************************)
(* The pick job scheduler of bet-tracker: the pick_jobs / picks tables,    *)
(* the enqueue pass, and the worker loop (reap, claim, execute) of         *)
(* app/picks/worker.py, with every store round trip (SELECT, COMMIT) of a  *)
(* session as its own step, so that sessions of different workers          *)
(* interleave as they do against the shared relational store.              *)
(*                                                                         *)
(* Times are seconds.  None is NoTime for a datetime column, NoOwner for   *)
(* lock_owner and NoError for last_error.                                  *)
(***************************************************************************)
EXTENDS Integers, Sequences, FiniteSets, TLC

\* ---------------------------------------------------------------- bounds
MaxTicks == 2
MaxResets == 1
auto_picks_max_retries == 1

\* ------------------------------------------------------- program constants
_RUNNING_STALE_TIMEOUT_SECONDS == 15 * 60
pregame_window_hours == 2
auto_picks_concurrency == 2

SecondsPerHour == 60 * 60
\* The clock advances in steps of the stale timeout.
TickSeconds == _RUNNING_STALE_TIMEOUT_SECONDS

\* Worker processes that can exist, and those running in Spec and
\* SpecRunWorker; a process that was not started is "off".
Workers == {"w1", "w2", "w3"}
Started == {"w1", "w2"}
GameIds == {1}
\* The games of the specifications in which a claim finds more rows than its
\* limit.
BatchGameIds == {1, 2, 3}
NoTime == -1
NoOwner == "none"
NoError == <<"none">>

\* timedelta(hours=h), in seconds
timedelta_hours(h) == h * SecondsPerHour

\* Game 1 is inside its window from the start and starts after one tick;
\* game 2 enters its window after one tick.
GameStart(g) == IF g = 1 THEN TickSeconds
                ELSE TickSeconds + timedelta_hours(pregame_window_hours)

\* What the reasoning client can return: parsed payloads (result, stake_u,
\* is_value, missing_data).
AiResponses ==
    { [result |-> "BET", stake_u |-> 1, is_value |-> TRUE, missing_data |-> <<>>],
      [result |-> "NO_BET", stake_u |-> 0, is_value |-> FALSE,
       missing_data |-> <<"odds">>],
      [result |-> "LEAN", stake_u |-> 1, is_value |-> TRUE,
       missing_data |-> <<"injuries">>],
      [result |-> "BET", stake_u |-> 1, is_value |-> TRUE,
       missing_data |-> <<"odds", "odds">>] }
NoAi == [result |-> "", stake_u |-> 0, is_value |-> FALSE, missing_data |-> <<>>]

\* Exceptions an execution can end with, as type(exc).__name__ + message.
GameNotFound == <<"RuntimeError", "Game not found for job.">>
ClientError == <<"OpenAIClientError", "request failed">>
MultiplePicks == <<"MultipleResultsFound", "Multiple rows were found">>
NoOdds == "none"

\* settings.openai_api_key_enc: nothing stored, a token the process's
\* APP_SECRET_KEY decrypts, or one it does not (InvalidToken).
NoKey == "none"
ValidToken == "valid-token"
InvalidToken == "invalid-token"

\* app/settings.py decrypt_api_key: None for nothing stored and for a token
\* that does not decrypt.
decrypt_api_key(encrypted) ==
    IF encrypted = NoKey THEN NoKey
    ELSE IF encrypted = InvalidToken THEN NoKey
    ELSE "api-key"

\* The reasoning client's attempt ceiling.
OPENAI_MAX_ATTEMPTS == 3

\* What one requests.post can end with: the two exception families the
\* client tells apart, or a response (status code, whether its body is JSON,
\* its status field, its output text and what that text parses to).
Timeout == [kind |-> "Timeout"]
ConnectionError == [kind |-> "ConnectionError"]
Response(status_code, is_json, status, output_text, parsed) ==
    [kind |-> "response", status_code |-> status_code, is_json |-> is_json,
     status |-> status, output_text |-> output_text, parsed |-> parsed]
ErrorResponses ==
    { Response(500, TRUE, "failed", "", NoAi),
      Response(502, FALSE, "", "", NoAi),
      Response(200, FALSE, "", "", NoAi),
      Response(200, TRUE, "completed", "", NoAi),
      Response(200, TRUE, "incomplete", "", NoAi),
      Response(200, TRUE, "incomplete", "truncated", NoAi),
      Response(200, TRUE, "completed", "not json", NoAi) }
OkResponses ==
    { Response(200, TRUE, "completed", "json", r) : r \in AiResponses }
PostOutcomes == {Timeout, ConnectionError} \cup ErrorResponses \cup OkResponses

\* One call of request_pick: position, the settings and payload it was
\* called with, the attempt of its loop, the requests it has sent (each with
\* the body posted and how it ended), the sleeps it has made, and what it
\* returned or raised.
IdleClient ==
    [pc |-> "idle", model |-> "", payload |-> NoOdds, attempt |-> 0,
     posts |-> <<>>, sleeps |-> <<>>, parsed |-> NoAi, error |-> ""]

\* Enqueue passes that can run at once, and a pass with no open session.
Passes == {"p1", "p2"}
NoPass == [pc |-> "idle", game_id |-> 0, op |-> "", now_utc |-> NoTime,
           row |-> [status |-> "absent"], result |-> ""]

VARIABLES
    now,        \* the wall clock, _utcnow()
    games,      \* games table: id -> [provider, status, start_time_utc]
    jobs,       \* pick_jobs table: a sequence of rows, id = index
    picks,      \* picks table: a sequence of rows
    wpc,        \* each worker loop's position
    loaded,     \* rows the worker's open session has loaded: id -> row
    ex,         \* executor invocations: worker -> job id -> its state
    resets,     \* history: failed jobs reset by the enqueue pass
    win,        \* one call of _is_in_pregame_window: its arguments and result
    cl,         \* one call of request_pick: its position, requests and result
    api_key_enc,\* settings.openai_api_key_enc: what is stored as the API key
    enq,        \* enqueue passes: pass -> what its open session is to flush
    stop_event  \* the asyncio.Event handed to run_worker_with_shutdown

vars == <<now, games, jobs, picks, wpc, loaded, ex, resets, win, cl, api_key_enc, enq,
          stop_event>>

\* The ids pick_jobs rows can take: one job per game at most
\* (uq_pick_jobs_game_id), over the games the store holds.
JobIds == 1 .. Cardinality(DOMAIN games)

NoRow == [game_id |-> 0, status |-> "absent", attempts |-> 0, run_at_utc |-> NoTime,
          locked_at_utc |-> NoTime, lock_owner |-> NoOwner, last_error |-> NoError]

NoneLoaded == [i \in JobIds |-> NoRow]

\* An executor invocation: its position, the job row its session holds, the
\* exception it caught, the payload request_pick returned, the payload it is
\* about to upsert and the picks row its upsert query found (0: none).
NoExec == [pc |-> "none", row |-> NoRow, err |-> NoError, raw |-> NoAi,
           ai |-> NoAi, found |-> 0]

\* ---------------------------------------------------------------- helpers

\* str.lower() on the status strings the games table holds.
Lower(s) == IF s = "SCHEDULED" THEN "scheduled" ELSE s

\* A session flush: the UPDATE carries exactly the columns whose assigned
\* value differs from the loaded one; the others keep what the store holds.
Flush(cur, was, new) ==
    [f \in DOMAIN cur |-> IF new[f] # was[f] THEN new[f] ELSE cur[f]]

\* A window check that excluded the start instant.
_is_in_pregame_window_exclusive(game_start_utc, now_utc, window_hours) ==
    IF game_start_utc = NoTime THEN FALSE
    ELSE game_start_utc - timedelta_hours(window_hours) <= now_utc
         /\ now_utc < game_start_utc

_is_in_pregame_window(game_start_utc, now_utc, window_hours) ==
    IF game_start_utc = NoTime THEN FALSE
    ELSE LET window_start == game_start_utc - timedelta_hours(window_hours)
         IN  window_start <= now_utc /\ now_utc <= game_start_utc

NoWin == [game_start_utc |-> NoTime, now_utc |-> 0, hours |-> 0,
          returned |-> FALSE, result |-> FALSE]

PicksOf(game_id) == {i \in DOMAIN picks : picks[i].game_id = game_id}
JobsOf(game_id) == {i \in DOMAIN jobs : jobs[i].game_id = game_id}

\* ------------------------------------------------------------------- Init
Init ==
    /\ now = 0
    /\ games = [g \in GameIds |->
                  [provider |-> "espn", status |-> "scheduled",
                   start_time_utc |-> GameStart(g)]]
    /\ jobs = <<>>
    /\ picks = <<>>
    /\ wpc = [w \in Workers |-> IF w \in Started THEN "poll" ELSE "off"]
    /\ loaded = [w \in Workers |-> NoneLoaded]
    /\ ex = [w \in Workers |-> [j \in JobIds |-> NoExec]]
    /\ resets = 0
    /\ win = NoWin
    /\ cl = IdleClient
    /\ api_key_enc = ValidToken
    /\ enq = [p \in Passes |-> NoPass]
    /\ stop_event = FALSE

\* ------------------------------------------------------------------ clock
\* A session is between a SELECT and the COMMIT that follows it with no
\* call to the outside in between.
MidTransaction ==
    \/ \E w \in Workers : wpc[w] \in {"reaping", "claiming"}
    \/ \E w \in Workers, j \in JobIds : ex[w][j].pc \in {"upserting", "failing"}

\* The clock's unit is a quarter of an hour: it does not advance while a
\* session is between its SELECT and its COMMIT, so every _utcnow() of one
\* such stretch reads the same instant.
Tick ==
    /\ now < MaxTicks * TickSeconds
    /\ ~MidTransaction
    /\ now' = now + TickSeconds
    /\ UNCHANGED <<stop_event, cl, api_key_enc, enq, win, games, jobs, picks, wpc, loaded, ex, resets>>

\* The ingestion sync stores the provider's new status of a game.
SyncGame(g) ==
    \E dto_status \in {"postponed"} :
        /\ games[g].status # dto_status
        /\ games' = [games EXCEPT ![g].status = dto_status]
    /\ UNCHANGED <<stop_event, cl, api_key_enc, enq, win, now, jobs, picks, wpc, loaded, ex, resets>>

\* ---------------------------------------------------------------- enqueue

\* An _enqueue_for_game that does not look at the game's status.
_enqueue_for_game_any_status(g, now_utc, window_hours) ==
    LET game == games[g]
        new_job == [game_id |-> g, status |-> "queued", attempts |-> 0,
                    run_at_utc |-> now_utc, locked_at_utc |-> NoTime,
                    lock_owner |-> NoOwner, last_error |-> NoError]
    IN  /\ game.provider = "espn"
        /\ game.start_time_utc # NoTime
        /\ _is_in_pregame_window(game.start_time_utc, now_utc, window_hours)
        /\ PicksOf(g) = {}
        /\ IF JobsOf(g) # {}
           THEN LET i == CHOOSE i \in JobsOf(g) : TRUE
                IN  /\ jobs[i].status = "failed"
                    /\ resets < MaxResets
                    /\ jobs' = [jobs EXCEPT ![i] = new_job]
                    /\ resets' = resets + 1
           ELSE /\ jobs' = Append(jobs, new_job)
                /\ resets' = resets

\* _enqueue_for_game, as the enqueue passes call it (for games of provider
\* espn), followed by the pass's commit.
\* An _enqueue_for_game whose reset of a failed job keeps the job's attempts
\* and last error.
_enqueue_for_game_keeping_attempts(g, now_utc, window_hours) ==
    LET game == games[g]
        new_job == [game_id |-> g, status |-> "queued", attempts |-> 0,
                    run_at_utc |-> now_utc, locked_at_utc |-> NoTime,
                    lock_owner |-> NoOwner, last_error |-> NoError]
    IN  /\ game.provider = "espn"
        /\ game.start_time_utc # NoTime
        /\ Lower(game.status) = "scheduled"
        /\ _is_in_pregame_window(game.start_time_utc, now_utc, window_hours)
        /\ PicksOf(g) = {}
        /\ IF JobsOf(g) # {}
           THEN LET i == CHOOSE i \in JobsOf(g) : TRUE
                IN  /\ jobs[i].status = "failed"
                    /\ resets < MaxResets
                    /\ jobs' = [jobs EXCEPT ![i].status = "queued",
                                            ![i].run_at_utc = now_utc]
                    /\ resets' = resets + 1
           ELSE /\ jobs' = Append(jobs, new_job)
                /\ resets' = resets

_enqueue_for_game(g, now_utc, window_hours) ==
    LET game == games[g]
        new_job == [game_id |-> g, status |-> "queued", attempts |-> 0,
                    run_at_utc |-> now_utc, locked_at_utc |-> NoTime,
                    lock_owner |-> NoOwner, last_error |-> NoError]
    IN  /\ game.provider = "espn"
        /\ game.start_time_utc # NoTime
        /\ Lower(game.status) = "scheduled"
        /\ _is_in_pregame_window(game.start_time_utc, now_utc, window_hours)
        /\ PicksOf(g) = {}
        /\ IF JobsOf(g) # {}
           THEN LET i == CHOOSE i \in JobsOf(g) : TRUE
                IN  /\ jobs[i].status = "failed"
                    /\ resets < MaxResets
                    /\ jobs' = [jobs EXCEPT ![i] = new_job]
                    /\ resets' = resets + 1
           ELSE /\ jobs' = Append(jobs, new_job)
                /\ resets' = resets

Enqueue(g) ==
    /\ _enqueue_for_game(g, now, pregame_window_hours)
    /\ UNCHANGED <<stop_event, cl, api_key_enc, enq, win, now, games, picks, wpc, loaded, ex>>

\* ----------------------------------------------------------------- reaper

\* The rows _requeue_stale_running_jobs selects.
StaleJobs(now_utc) ==
    {i \in DOMAIN jobs :
        /\ jobs[i].status = "running"
        /\ jobs[i].locked_at_utc # NoTime
        /\ jobs[i].locked_at_utc <= now_utc - _RUNNING_STALE_TIMEOUT_SECONDS}

\* A reaper that charged the recovery to the job's attempts.
RequeuedCharged(row, now_utc, current_lock_owner) ==
    [row EXCEPT !.status = "queued",
                !.run_at_utc = now_utc,
                !.attempts = row.attempts + 1,
                !.locked_at_utc = NoTime,
                !.lock_owner = NoOwner]

\* What the reaper assigns to a stale row it loaded.
Requeued(row, now_utc, current_lock_owner) ==
    LET previous_owner == IF row.lock_owner = NoOwner THEN "unknown"
                          ELSE row.lock_owner
    IN  [row EXCEPT !.status = "queued",
                    !.run_at_utc = now_utc,
                    !.locked_at_utc = NoTime,
                    !.lock_owner = NoOwner,
                    !.last_error = <<"Recovered stale running job",
                                     previous_owner, current_lock_owner>>]

\* run_worker_with_shutdown, lines 346 and 360: bool() of the stored key.
has_key == api_key_enc # NoKey

\* A cycle that goes on to the reaper without a test of the stop event.
ReapSelectStopBlind(w) ==
    /\ wpc[w] = "poll"
    /\ has_key
    /\ LET stale == StaleJobs(now)
       IN  /\ loaded' = [loaded EXCEPT ![w] =
                          [i \in JobIds |-> IF i \in stale THEN jobs[i] ELSE NoRow]]
           /\ wpc' = [wpc EXCEPT ![w] = IF stale = {} THEN "claim" ELSE "reaping"]
    /\ UNCHANGED <<stop_event, cl, api_key_enc, enq, win, now, games, jobs, picks, ex, resets>>

\* The reaper's SELECT, which the loop reaches when the stop event is not set
\* at the top of the cycle and a key is stored.  With nothing stale it commits
\* nothing and the loop goes on to the claim.
ReapSelect(w) ==
    /\ wpc[w] = "poll"
    /\ ~stop_event
    /\ has_key
    /\ LET stale == StaleJobs(now)
       IN  /\ loaded' = [loaded EXCEPT ![w] =
                          [i \in JobIds |-> IF i \in stale THEN jobs[i] ELSE NoRow]]
           /\ wpc' = [wpc EXCEPT ![w] = IF stale = {} THEN "claim" ELSE "reaping"]
    /\ UNCHANGED <<stop_event, cl, api_key_enc, enq, win, now, games, jobs, picks, ex, resets>>

\* The reaper's COMMIT of the rows it loaded.
ReapCommit(w) ==
    /\ wpc[w] = "reaping"
    /\ jobs' = [i \in DOMAIN jobs |->
                  IF loaded[w][i] # NoRow
                  THEN Flush(jobs[i], loaded[w][i],
                             Requeued(loaded[w][i], now, w))
                  ELSE jobs[i]]
    /\ loaded' = [loaded EXCEPT ![w] = NoneLoaded]
    /\ wpc' = [wpc EXCEPT ![w] = "claim"]
    /\ UNCHANGED <<stop_event, cl, api_key_enc, enq, win, now, games, picks, ex, resets>>

\* ------------------------------------------------------------------ claim

\* The rows _claim_jobs selects: queued and due, ordered by run_at_utc, at
\* most `concurrency` of them.  The order among equal run_at_utc is the
\* store's.
Eligible(now_utc) ==
    {i \in DOMAIN jobs : jobs[i].status = "queued" /\ jobs[i].run_at_utc <= now_utc}

\* A claim whose SELECT has no LIMIT.
SelectionsUnlimited(now_utc, concurrency) == {Eligible(now_utc)}

Selections(now_utc, concurrency) ==
    LET eligible == Eligible(now_utc)
        n == IF Cardinality(eligible) < concurrency THEN Cardinality(eligible)
             ELSE concurrency
    IN  {S \in SUBSET eligible :
            /\ Cardinality(S) = n
            /\ \A a \in S, b \in eligible \ S :
                  jobs[a].run_at_utc <= jobs[b].run_at_utc}

\* What _claim_jobs assigns to a row it loaded.
Claimed(row, now_utc, lock_owner) ==
    [row EXCEPT !.status = "running",
                !.locked_at_utc = now_utc,
                !.lock_owner = lock_owner]

\* _claim_jobs' SELECT.  With no row selected the commit writes nothing, the
\* call returns [] and the loop sleeps until its next poll.
ClaimSelectAt(w, at) ==
    /\ wpc[w] = at
    /\ \E S \in Selections(now, auto_picks_concurrency) :
          /\ loaded' = [loaded EXCEPT ![w] =
                          [i \in JobIds |-> IF i \in S THEN jobs[i] ELSE NoRow]]
          /\ wpc' = [wpc EXCEPT ![w] = IF S = {} THEN "poll" ELSE "claiming"]
    /\ UNCHANGED <<stop_event, cl, api_key_enc, enq, win, now, games, jobs, picks, ex, resets>>

\* run_worker_with_shutdown claims after the reaper has run.
ClaimSelect(w) == ClaimSelectAt(w, "claim")

\* run_worker claims at the top of its loop: it never calls the reaper.
RunWorkerClaimSelect(w) == ClaimSelectAt(w, "poll")

\* _claim_jobs' COMMIT, and the loop's create_task per returned job id.
ClaimCommit(w) ==
    /\ wpc[w] = "claiming"
    /\ jobs' = [i \in DOMAIN jobs |->
                  IF loaded[w][i] # NoRow
                  THEN Flush(jobs[i], loaded[w][i], Claimed(loaded[w][i], now, w))
                  ELSE jobs[i]]
    /\ ex' = [ex EXCEPT ![w] =
                [j \in JobIds |-> IF loaded[w][j] # NoRow
                                  THEN [NoExec EXCEPT !.pc = "pending"]
                                  ELSE NoExec]]
    /\ loaded' = [loaded EXCEPT ![w] = NoneLoaded]
    /\ wpc' = [wpc EXCEPT ![w] = "gather"]
    /\ UNCHANGED <<stop_event, cl, api_key_enc, enq, win, now, games, picks, resets>>

\* asyncio.gather returns once every task of the batch has ended.
BatchDone(w) ==
    /\ wpc[w] = "gather"
    /\ \A j \in JobIds : ex[w][j].pc = "none"
    /\ wpc' = [wpc EXCEPT ![w] = "poll"]
    /\ UNCHANGED <<stop_event, cl, api_key_enc, enq, win, now, games, jobs, picks, loaded, ex, resets>>

\* --------------------------------------------------------------- executor

\* A payload builder that filled in a moneyline.
build_game_payload_with_odds(game) ==
    [start_time_utc |-> game.start_time_utc, odds |-> "moneyline"]

build_game_payload(game) ==
    [start_time_utc |-> game.start_time_utc, odds |-> NoOdds]

InSeq(x, s) == \E k \in DOMAIN s : s[k] = x

\* A coercion that appended the label without looking for it.
_coerce_no_odds_appending(ai_payload, missing_label) ==
    [ai_payload EXCEPT !.missing_data = Append(ai_payload.missing_data, missing_label),
                       !.result = "NO_BET",
                       !.stake_u = 0,
                       !.is_value = FALSE]

_coerce_no_odds(ai_payload, missing_label) ==
    LET missing_data == IF InSeq(missing_label, ai_payload.missing_data)
                        THEN ai_payload.missing_data
                        ELSE Append(ai_payload.missing_data, missing_label)
    IN  [ai_payload EXCEPT !.missing_data = missing_data,
                           !.result = "NO_BET",
                           !.stake_u = 0,
                           !.is_value = FALSE]

\* The picks row _upsert_pick leaves for a game.
PickRow(game_id, ai_payload) ==
    [game_id |-> game_id, result |-> ai_payload.result,
     stake_u |-> ai_payload.stake_u, is_value |-> ai_payload.is_value,
     missing_data_json |-> ai_payload.missing_data]

\* The except branch up to its re-query: the session is rolled back and
\* holds the job row as the store has it now.
Caught(w, j, exc) ==
    [ex EXCEPT ![w][j] = [NoExec EXCEPT !.pc = "failing", !.row = jobs[j],
                                        !.err = exc]]

\* What the except branch assigns to the row it re-queried.
Failed(row, error_summary, now_utc, max_retries) ==
    LET attempts == row.attempts + 1
    IN  IF attempts <= max_retries
        THEN [row EXCEPT !.attempts = attempts,
                         !.last_error = error_summary,
                         !.status = "queued",
                         !.run_at_utc = now_utc,
                         !.locked_at_utc = NoTime,
                         !.lock_owner = NoOwner]
        ELSE [row EXCEPT !.attempts = attempts,
                         !.last_error = error_summary,
                         !.status = "failed",
                         !.locked_at_utc = NoTime,
                         !.lock_owner = NoOwner]

\* The job row after `job.status = "done"` (and last_error, on a skip) is
\* committed by the session that loaded `row`.
Done(cur, row, last_error) ==
    Flush(cur, row, [row EXCEPT !.status = "done", !.last_error = last_error])

\* The tasks of worker w that hold its semaphore: _process_job_sync is
\* running in a thread for them.
Executing(w) == {j \in JobIds : ex[w][j].pc \notin {"none", "pending"}}

\* An executor that does not compare the job's lock_owner with its own.
ExecStartAnyOwner(w, j) ==
    /\ ex[w][j].pc = "pending"
    /\ Cardinality(Executing(w)) < auto_picks_concurrency
    /\ ex' = [ex EXCEPT ![w][j] =
                IF j \notin DOMAIN jobs \/ jobs[j].status # "running"
                THEN NoExec
                ELSE [NoExec EXCEPT !.pc = "checked", !.row = jobs[j]]]
    /\ UNCHANGED <<stop_event, cl, api_key_enc, enq, win, now, games, jobs, picks, wpc, loaded,
                   resets>>

\* _process_job acquires the semaphore of the cycle; then _process_job_sync,
\* lines 204-208: load the job, check the ownership.
ExecStart(w, j) ==
    /\ ex[w][j].pc = "pending"
    /\ Cardinality(Executing(w)) < auto_picks_concurrency
    /\ ex' = [ex EXCEPT ![w][j] =
                IF \/ j \notin DOMAIN jobs
                   \/ jobs[j].status # "running"
                   \/ jobs[j].lock_owner # w
                THEN NoExec
                ELSE [NoExec EXCEPT !.pc = "checked", !.row = jobs[j]]]
    /\ UNCHANGED <<stop_event, cl, api_key_enc, enq, win, now, games, jobs, picks, wpc, loaded, resets>>

\* Lines 211-254: load the game, re-validate, look for an existing pick;
\* a skip commits the job as done, otherwise the request goes out.
ExecValidate(w, j) ==
    /\ ex[w][j].pc = "checked"
    /\ LET row == ex[w][j].row
           g == row.game_id
           skip(msg) == /\ jobs' = [jobs EXCEPT ![j] = Done(jobs[j], row, msg)]
                        /\ ex' = [ex EXCEPT ![w][j] = NoExec]
       IN  IF g \notin DOMAIN games
           THEN /\ ex' = Caught(w, j, GameNotFound)
                /\ jobs' = jobs
           ELSE IF games[g].provider # "espn"
           THEN skip(<<"Skipped non-ESPN game">>)
           ELSE IF Lower(games[g].status) # "scheduled"
           THEN skip(<<"Skipped game status=", games[g].status>>)
           ELSE IF ~_is_in_pregame_window(games[g].start_time_utc, now,
                                          pregame_window_hours)
           THEN skip(<<"Skipped game outside pregame window">>)
           ELSE IF Cardinality(PicksOf(g)) > 1
           THEN /\ ex' = Caught(w, j, MultiplePicks)
                /\ jobs' = jobs
           ELSE IF PicksOf(g) # {}
           THEN skip(row.last_error)
           ELSE /\ ex' = [ex EXCEPT ![w][j].pc = "calling"]
                /\ jobs' = jobs
    /\ UNCHANGED <<stop_event, cl, api_key_enc, enq, win, now, games, picks, wpc, loaded, resets>>

\* An executor that upserted the payload as request_pick returned it.
UpsertingAsReturned(w, j, ai_payload) ==
    [ex EXCEPT ![w][j].pc = "upserting",
               ![w][j].raw = ai_payload,
               ![w][j].ai = ai_payload,
               ![w][j].found = 0]

\* Lines 257-261 up to _upsert_pick's query, for a payload request_pick
\* returned: the payload is coerced when the request carried no odds.
Upserting(w, j, ai_payload) ==
    LET g == ex[w][j].row.game_id
        payload == build_game_payload(games[g])
    IN  IF Cardinality(PicksOf(g)) > 1
        THEN Caught(w, j, MultiplePicks)
        ELSE [ex EXCEPT ![w][j].pc = "upserting",
                        ![w][j].raw = ai_payload,
                        ![w][j].ai =
                            IF payload.odds = NoOdds
                            THEN _coerce_no_odds(ai_payload, "odds")
                            ELSE ai_payload,
                        ![w][j].found =
                            IF PicksOf(g) = {} THEN 0
                            ELSE CHOOSE i \in PicksOf(g) : TRUE]

\* Lines 255-261: request_pick returns a payload or raises; it raises when
\* the stored key does not decrypt to a key.
ExecRespond(w, j) ==
    /\ ex[w][j].pc = "calling"
    /\ \/ ex' = Caught(w, j, ClientError)
       \/ /\ decrypt_api_key(api_key_enc) # NoKey
          /\ \E ai_payload \in AiResponses : ex' = Upserting(w, j, ai_payload)
    /\ UNCHANGED <<stop_event, cl, api_key_enc, enq, win, now, games, jobs, picks, wpc, loaded, resets>>

\* An executor that committed the pick and left the job for a later commit.
ExecCommitPickOnly(w, j) ==
    /\ ex[w][j].pc = "upserting"
    /\ LET e == ex[w][j]
           g == e.row.game_id
       IN  picks' = IF e.found = 0 THEN Append(picks, PickRow(g, e.ai))
                    ELSE [picks EXCEPT ![e.found] = PickRow(g, e.ai)]
    /\ ex' = [ex EXCEPT ![w][j] = NoExec]
    /\ UNCHANGED <<stop_event, cl, api_key_enc, enq, win, now, games, jobs, wpc, loaded,
                   resets>>

\* Lines 261-268: the commit of the upserted pick and of the job as done.
ExecCommit(w, j) ==
    /\ ex[w][j].pc = "upserting"
    /\ LET e == ex[w][j]
           g == e.row.game_id
       IN  /\ picks' = IF e.found = 0 THEN Append(picks, PickRow(g, e.ai))
                       ELSE [picks EXCEPT ![e.found] = PickRow(g, e.ai)]
           /\ jobs' = [jobs EXCEPT ![j] = Done(jobs[j], e.row, e.row.last_error)]
    /\ ex' = [ex EXCEPT ![w][j] = NoExec]
    /\ UNCHANGED <<stop_event, cl, api_key_enc, enq, win, now, games, wpc, loaded, resets>>

\* Lines 278-304: the commit of the except branch.
ExecFailCommit(w, j) ==
    /\ ex[w][j].pc = "failing"
    /\ LET e == ex[w][j]
       IN  jobs' = [jobs EXCEPT ![j] =
                      Flush(jobs[j], e.row,
                            Failed(e.row, e.err, now, auto_picks_max_retries))]
    /\ ex' = [ex EXCEPT ![w][j] = NoExec]
    /\ UNCHANGED <<stop_event, cl, api_key_enc, enq, win, now, games, picks, wpc, loaded, resets>>

\* ------------------------------------------------------------------- Next
Next ==
    \/ Tick
    \/ \E g \in GameIds : SyncGame(g)
    \/ \E g \in GameIds : Enqueue(g)
    \/ \E w \in Workers : ReapSelect(w)
    \/ \E w \in Workers : ReapCommit(w)
    \/ \E w \in Workers : ClaimSelect(w)
    \/ \E w \in Workers : ClaimCommit(w)
    \/ \E w \in Workers : BatchDone(w)
    \/ \E w \in Workers, j \in JobIds : ExecStart(w, j)
    \/ \E w \in Workers, j \in JobIds : ExecValidate(w, j)
    \/ \E w \in Workers, j \in JobIds : ExecRespond(w, j)
    \/ \E w \in Workers, j \in JobIds : ExecCommit(w, j)
    \/ \E w \in Workers, j \in JobIds : ExecFailCommit(w, j)

Spec == Init /\ [][Next]_vars

\* Workers started through run_worker (the module's main): no reaper.
NextRunWorker ==
    \/ Tick
    \/ \E g \in GameIds : SyncGame(g)
    \/ \E g \in GameIds : Enqueue(g)
    \/ \E w \in Workers : RunWorkerClaimSelect(w)
    \/ \E w \in Workers : ClaimCommit(w)
    \/ \E w \in Workers : BatchDone(w)
    \/ \E w \in Workers, j \in JobIds : ExecStart(w, j)
    \/ \E w \in Workers, j \in JobIds : ExecValidate(w, j)
    \/ \E w \in Workers, j \in JobIds : ExecRespond(w, j)
    \/ \E w \in Workers, j \in JobIds : ExecCommit(w, j)
    \/ \E w \in Workers, j \in JobIds : ExecFailCommit(w, j)

SpecRunWorker == Init /\ [][NextRunWorker]_vars

\* Three run_worker processes polling one store within one clock instant.
InitThreeWorkers ==
    /\ Init!1 /\ Init!2 /\ Init!3 /\ Init!4
    /\ wpc = [w \in Workers |-> "poll"]
    /\ Init!6 /\ Init!7 /\ Init!8 /\ Init!9 /\ Init!10 /\ Init!11 /\ Init!12 /\ Init!13

NextThreeWorkers ==
    \/ \E g \in GameIds : Enqueue(g)
    \/ \E w \in Workers : RunWorkerClaimSelect(w)
    \/ \E w \in Workers : ClaimCommit(w)
    \/ \E w \in Workers : BatchDone(w)
    \/ \E w \in Workers, j \in JobIds : ExecStart(w, j)
    \/ \E w \in Workers, j \in JobIds : ExecValidate(w, j)
    \/ \E w \in Workers, j \in JobIds : ExecRespond(w, j)
    \/ \E w \in Workers, j \in JobIds : ExecCommit(w, j)
    \/ \E w \in Workers, j \in JobIds : ExecFailCommit(w, j)

SpecThreeWorkers == InitThreeWorkers /\ [][NextThreeWorkers]_vars

\* ------------------------------------------------------ reasoning client
\* The request body: model and the payload as the user input.  The body has
\* no output-length field.
_build_response_payload(model, payload) ==
    [model |-> model, input |-> payload]

\* A client that returned an empty result for a response without output text.
ParseResponseLenient(response) ==
    IF response.output_text = "json" /\ response.is_json /\ response.status_code < 400
    THEN [error |-> "", parsed |-> response.parsed]
    ELSE IF response.output_text = ""
    THEN [error |-> "", parsed |-> NoAi]
    ELSE [error |-> "OpenAI response was not valid JSON", parsed |-> NoAi]

\* request_pick after the loop, for a response: the parsed output or the
\* message of the OpenAIClientError raised.
ParseResponse(response) ==
    IF ~response.is_json
    THEN IF response.status_code >= 400
         THEN [error |-> "OpenAI API error: non-JSON response", parsed |-> NoAi]
         ELSE [error |-> "OpenAI API returned non-JSON response", parsed |-> NoAi]
    ELSE IF response.status_code >= 400
    THEN [error |-> "OpenAI API error", parsed |-> NoAi]
    ELSE IF response.output_text = ""
    THEN [error |-> "OpenAI response missing output_text", parsed |-> NoAi]
    ELSE IF response.output_text # "json"
    THEN [error |-> "OpenAI response was not valid JSON", parsed |-> NoAi]
    ELSE [error |-> "", parsed |-> response.parsed]

\* request_pick, lines 111-124: the key check and the request body.
ClientStart(payload, model) ==
    /\ cl.pc = "idle"
    /\ cl' = IF decrypt_api_key(api_key_enc) = NoKey
             THEN [IdleClient EXCEPT !.pc = "raised", !.model = model,
                                     !.payload = payload,
                                     !.error = "Missing OpenAI API key"]
             ELSE [IdleClient EXCEPT !.pc = "posting", !.model = model,
                                     !.payload = payload, !.attempt = 1]

\* Lines 127-178: one requests.post of the loop and what follows from how it
\* ends.
ClientPost ==
    /\ cl.pc = "posting"
    /\ \E outcome \in PostOutcomes :
          LET body == _build_response_payload(cl.model, cl.payload)
              sent == [cl EXCEPT !.posts = Append(cl.posts, [body |-> body,
                                                             outcome |-> outcome])]
          IN  cl' =
                IF outcome.kind = "Timeout"
                THEN IF cl.attempt = OPENAI_MAX_ATTEMPTS
                     THEN [sent EXCEPT !.pc = "raised",
                             !.error = "OpenAI request failed after retries due to timeout"]
                     ELSE [sent EXCEPT !.pc = "sleeping"]
                ELSE IF outcome.kind = "ConnectionError"
                THEN [sent EXCEPT !.pc = "raised", !.error = "OpenAI request failed"]
                ELSE LET r == ParseResponse(outcome)
                     IN  IF r.error # ""
                         THEN [sent EXCEPT !.pc = "raised", !.error = r.error]
                         ELSE [sent EXCEPT !.pc = "returned", !.parsed = r.parsed]

\* A client that waited one time unit after every failed attempt.
ClientSleepConstant ==
    /\ cl.pc = "sleeping"
    /\ cl' = [cl EXCEPT !.pc = "posting",
                        !.sleeps = Append(cl.sleeps, 1),
                        !.attempt = cl.attempt + 1]

\* Line 141: time.sleep(attempt), then the next attempt.
ClientSleep ==
    /\ cl.pc = "sleeping"
    /\ cl' = [cl EXCEPT !.pc = "posting",
                        !.sleeps = Append(cl.sleeps, cl.attempt),
                        !.attempt = cl.attempt + 1]

\* request_pick on its own, for every stored key, model and payload.
ClientModels == {"gpt-5", "gpt-5-mini"}
ClientPayloads == {build_game_payload([start_time_utc |-> t]) : t \in {NoTime, GameStart(1)}}

InitClient ==
    /\ Init!1 /\ Init!2 /\ Init!3 /\ Init!4 /\ Init!5 /\ Init!6 /\ Init!7
    /\ Init!8 /\ Init!9 /\ Init!10 /\ Init!12 /\ Init!13
    /\ api_key_enc \in {NoKey, ValidToken, InvalidToken}

StoreUnchanged ==
    UNCHANGED <<stop_event, now, games, jobs, picks, wpc, loaded, ex, resets, win, api_key_enc, enq>>

NextClient ==
    \/ \E payload \in ClientPayloads, model \in ClientModels :
          ClientStart(payload, model) /\ StoreUnchanged
    \/ ClientPost /\ StoreUnchanged
    \/ ClientSleep /\ StoreUnchanged

SpecClient == InitClient /\ [][NextClient]_vars

\* ------------------------------------------------------------ end to end
\* One run_worker process; the executor's request_pick is the client above.
\* Line 255: the executor enters request_pick.
ExecCall(w, j) ==
    /\ ex[w][j].pc = "calling"
    /\ ClientStart(build_game_payload(games[ex[w][j].row.game_id]), "gpt-5")
    /\ UNCHANGED <<stop_event, now, games, jobs, picks, wpc, loaded, ex, resets, win, api_key_enc, enq>>

\* Lines 255-261: request_pick has returned or raised.  The client record
\* keeps the requests of the call that ended.
ExecReturn(w, j) ==
    /\ ex[w][j].pc = "calling"
    /\ cl.pc \in {"returned", "raised"}
    /\ ex' = IF cl.pc = "raised"
             THEN Caught(w, j, <<"OpenAIClientError", cl.error>>)
             ELSE Upserting(w, j, cl.parsed)
    /\ cl' = [cl EXCEPT !.pc = "idle"]
    /\ UNCHANGED <<stop_event, now, games, jobs, picks, wpc, loaded, resets, win, api_key_enc, enq>>

\* A scheduled game starting at T, now = T - 1h, one worker.
InitEndToEnd ==
    /\ now = 0
    /\ games = [g \in GameIds |->
                  [provider |-> "espn", status |-> "scheduled",
                   start_time_utc |-> now + timedelta_hours(1)]]
    /\ Init!3 /\ Init!4
    /\ wpc = [w \in Workers |-> IF w = "w1" THEN "poll" ELSE "off"]
    /\ Init!6 /\ Init!7 /\ Init!8 /\ Init!9 /\ Init!10 /\ Init!11 /\ Init!12 /\ Init!13

NextEndToEnd ==
    \/ \E g \in GameIds : Enqueue(g)
    \/ \E w \in Workers : RunWorkerClaimSelect(w)
    \/ \E w \in Workers : ClaimCommit(w)
    \/ \E w \in Workers : BatchDone(w)
    \/ \E w \in Workers, j \in JobIds : ExecStart(w, j)
    \/ \E w \in Workers, j \in JobIds : ExecValidate(w, j)
    \/ \E w \in Workers, j \in JobIds : ExecCall(w, j)
    \/ ClientPost /\ StoreUnchanged
    \/ ClientSleep /\ StoreUnchanged
    \/ \E w \in Workers, j \in JobIds : ExecReturn(w, j)
    \/ \E w \in Workers, j \in JobIds : ExecCommit(w, j)
    \/ \E w \in Workers, j \in JobIds : ExecFailCommit(w, j)

SpecEndToEnd == InitEndToEnd /\ [][NextEndToEnd]_vars

\* ------------------------------------------- concurrent enqueue passes
\* The row _enqueue_for_game adds for a game.
NewJob(g, now_utc) ==
    [game_id |-> g, status |-> "queued", attempts |-> 0,
     run_at_utc |-> now_utc, locked_at_utc |-> NoTime,
     lock_owner |-> NoOwner, last_error |-> NoError]

\* A pick_jobs table without its unique constraint.
uq_pick_jobs_game_id_dropped(rows, row) == TRUE

\* models.py PickJob.__table_args__: the store accepts a row only if no row
\* has its game_id.
uq_pick_jobs_game_id(rows, row) ==
    \A i \in DOMAIN rows : rows[i].game_id # row.game_id

\* An enqueue pass up to its commit: the queries of _enqueue_for_game and
\* what it leaves in the session (a new row, or the reset of a failed one).
EnqueueSelect(p, g) ==
    /\ enq[p].pc = "idle"
    /\ games[g].provider = "espn"
    /\ games[g].start_time_utc # NoTime
    /\ Lower(games[g].status) = "scheduled"
    /\ _is_in_pregame_window(games[g].start_time_utc, now, pregame_window_hours)
    /\ PicksOf(g) = {}
    /\ IF JobsOf(g) # {}
       THEN LET i == CHOOSE i \in JobsOf(g) : TRUE
            IN  /\ jobs[i].status = "failed"
                /\ resets < MaxResets
                /\ enq' = [enq EXCEPT ![p] = [pc |-> "flushing", game_id |-> g,
                                              op |-> "reset", now_utc |-> now,
                                              row |-> jobs[i], result |-> ""]]
       ELSE enq' = [enq EXCEPT ![p] = [pc |-> "flushing", game_id |-> g,
                                       op |-> "insert", now_utc |-> now,
                                       row |-> [status |-> "absent"],
                                       result |-> ""]]
    /\ UNCHANGED <<stop_event, now, games, jobs, picks, wpc, loaded, ex, resets, win, cl, api_key_enc>>

\* The pass's db.commit(): the INSERT fails on the unique constraint when a
\* row for the game has been committed meanwhile.
EnqueueCommit(p) ==
    /\ enq[p].pc = "flushing"
    /\ LET e == enq[p]
           new_job == NewJob(e.game_id, e.now_utc)
       IN  IF e.op = "insert"
           THEN IF uq_pick_jobs_game_id(jobs, new_job)
                THEN /\ jobs' = Append(jobs, new_job)
                     /\ enq' = [enq EXCEPT ![p] = [NoPass EXCEPT !.result = "committed"]]
                     /\ resets' = resets
                ELSE /\ jobs' = jobs
                     /\ enq' = [enq EXCEPT ![p] = [NoPass EXCEPT !.result = "IntegrityError"]]
                     /\ resets' = resets
           ELSE LET i == CHOOSE i \in JobsOf(e.game_id) : TRUE
                IN  /\ jobs' = [jobs EXCEPT ![i] = Flush(jobs[i], e.row, new_job)]
                    /\ enq' = [enq EXCEPT ![p] = [NoPass EXCEPT !.result = "committed"]]
                    /\ resets' = resets + 1
    /\ UNCHANGED <<stop_event, now, games, picks, wpc, loaded, ex, win, cl, api_key_enc>>

\* Two enqueue passes and one run_worker process.
InitEnqueue ==
    /\ Init!1 /\ Init!2 /\ Init!3 /\ Init!4
    /\ wpc = [w \in Workers |-> IF w = "w1" THEN "poll" ELSE "off"]
    /\ Init!6 /\ Init!7 /\ Init!8 /\ Init!9 /\ Init!10 /\ Init!11 /\ Init!12 /\ Init!13

NextEnqueue ==
    \/ Tick
    \/ \E g \in GameIds : SyncGame(g)
    \/ \E p \in Passes, g \in GameIds : EnqueueSelect(p, g)
    \/ \E p \in Passes : EnqueueCommit(p)
    \/ \E w \in Workers : RunWorkerClaimSelect(w)
    \/ \E w \in Workers : ClaimCommit(w)
    \/ \E w \in Workers : BatchDone(w)
    \/ \E w \in Workers, j \in JobIds : ExecStart(w, j)
    \/ \E w \in Workers, j \in JobIds : ExecValidate(w, j)
    \/ \E w \in Workers, j \in JobIds : ExecRespond(w, j)
    \/ \E w \in Workers, j \in JobIds : ExecCommit(w, j)
    \/ \E w \in Workers, j \in JobIds : ExecFailCommit(w, j)

SpecEnqueue == InitEnqueue /\ [][NextEnqueue]_vars

\* ------------------------------------------------------------ credential
\* The scheduler with every state of the stored key: none, a token that
\* decrypts, a token that does not.
InitCredential ==
    /\ Init!1 /\ Init!2 /\ Init!3 /\ Init!4 /\ Init!5 /\ Init!6 /\ Init!7
    /\ Init!8 /\ Init!9 /\ Init!10 /\ Init!12 /\ Init!13
    /\ api_key_enc \in {NoKey, ValidToken, InvalidToken}

SpecCredential == InitCredential /\ [][Next]_vars

\* ----------------------------------------------------------- store errors
\* Lines 274-304 with the store failing while the failure is recorded: the
\* except branch has no handler of its own, so the error leaves
\* _process_job_sync and the task; asyncio.gather (line 416) re-raises it in
\* the loop, which has no handler either.
ExecFailCommitError(w, j) ==
    /\ ex[w][j].pc = "failing"
    /\ ex' = [ex EXCEPT ![w][j] = NoExec]
    /\ wpc' = [wpc EXCEPT ![w] = "crashed"]
    /\ UNCHANGED <<stop_event, now, games, jobs, picks, loaded, resets, win, cl, api_key_enc, enq>>

NextStoreErrors ==
    \/ Next
    \/ \E w \in Workers, j \in JobIds : ExecFailCommitError(w, j)

SpecStoreErrors == Init /\ [][NextStoreErrors]_vars

\* ------------------------------------------------ the pre-game window check
MaxWindowHours == 2
WindowStarts == {NoTime, 0, timedelta_hours(MaxWindowHours), timedelta_hours(MaxWindowHours) + 1}
\* Instants around both ends of each window.
WindowNows(s) ==
    {s + d - timedelta_hours(k) : d \in {-1, 0, 1}, k \in 0 .. MaxWindowHours}
WindowInputs ==
    UNION {{[game_start_utc |-> s, now_utc |-> n, hours |-> h, returned |-> FALSE,
             result |-> FALSE] : n \in WindowNows(s), h \in 0 .. MaxWindowHours} :
           s \in WindowStarts}

InitWindow ==
    /\ Init!1 /\ Init!2 /\ Init!3 /\ Init!4 /\ Init!5 /\ Init!6 /\ Init!7
    /\ Init!8 /\ Init!10 /\ Init!11 /\ Init!12 /\ Init!13
    /\ win \in WindowInputs

CheckWindow ==
    /\ ~win.returned
    /\ win' = [win EXCEPT !.returned = TRUE,
                          !.result = _is_in_pregame_window(win.game_start_utc,
                                                           win.now_utc, win.hours)]
    /\ UNCHANGED <<stop_event, cl, api_key_enc, enq, now, games, jobs, picks, wpc, loaded, ex, resets>>

SpecWindow == InitWindow /\ [][CheckWindow]_vars

\* ---------------------------------------------------------------- shutdown

\* The owner of the loop sets the stop event; it is never cleared.
Stop ==
    /\ ~stop_event
    /\ stop_event' = TRUE
    /\ UNCHANGED <<now, games, jobs, picks, wpc, loaded, ex, resets, win, cl, api_key_enc, enq>>

\* A loop exit that does not wait for the batch it started.
LoopExitAbandoning(w) ==
    /\ wpc[w] \in {"poll", "gather"}
    /\ stop_event
    /\ wpc' = [wpc EXCEPT ![w] = "stopped"]
    /\ UNCHANGED <<stop_event, now, games, jobs, picks, loaded, ex, resets, win, cl,
                   api_key_enc, enq>>

\* run_worker_with_shutdown leaves its while loop: the event is tested at the
\* top of a cycle only, which the loop reaches after an idle wait or after
\* asyncio.gather has returned.
LoopExit(w) ==
    /\ wpc[w] = "poll"
    /\ stop_event
    /\ wpc' = [wpc EXCEPT ![w] = "stopped"]
    /\ UNCHANGED <<stop_event, now, games, jobs, picks, loaded, ex, resets, win, cl,
                   api_key_enc, enq>>

\* The loops and the enqueue pass with a stop event; game statuses stay as
\* they are, which the exit of a loop does not depend on.
NextShutdown ==
    \/ Tick
    \/ \E g \in GameIds : Enqueue(g)
    \/ \E w \in Workers : ReapSelect(w)
    \/ \E w \in Workers : ReapCommit(w)
    \/ \E w \in Workers : ClaimSelect(w)
    \/ \E w \in Workers : ClaimCommit(w)
    \/ \E w \in Workers : BatchDone(w)
    \/ \E w \in Workers, j \in JobIds : ExecStart(w, j)
    \/ \E w \in Workers, j \in JobIds : ExecValidate(w, j)
    \/ \E w \in Workers, j \in JobIds : ExecRespond(w, j)
    \/ \E w \in Workers, j \in JobIds : ExecCommit(w, j)
    \/ \E w \in Workers, j \in JobIds : ExecFailCommit(w, j)
    \/ Stop
    \/ \E w \in Workers : LoopExit(w)

SpecShutdown == Init /\ [][NextShutdown]_vars

\* ------------------------------------------------- recovery of stale jobs

\* The worker that stays alive, and the one that may hang at any step or end
\* on a store error while it records a failure.
LiveWorker == "w1"
DeadWorker == "w2"

\* Two run_worker processes, of which DeadWorker can crash.
NextRecovery ==
    \/ Tick
    \/ \E g \in GameIds : Enqueue(g)
    \/ \E w \in Workers : RunWorkerClaimSelect(w)
    \/ \E w \in Workers : ClaimCommit(w)
    \/ \E w \in Workers : BatchDone(w)
    \/ \E w \in Workers, j \in JobIds : ExecStart(w, j)
    \/ \E w \in Workers, j \in JobIds : ExecValidate(w, j)
    \/ \E w \in Workers, j \in JobIds : ExecRespond(w, j)
    \/ \E w \in Workers, j \in JobIds : ExecCommit(w, j)
    \/ \E w \in Workers, j \in JobIds : ExecFailCommit(w, j)
    \/ \E j \in JobIds : ExecFailCommitError(DeadWorker, j)

\* One step of a worker's loop or of an executor invocation of its batch.
LoopStep(w) ==
    \/ RunWorkerClaimSelect(w)
    \/ ClaimCommit(w)
    \/ BatchDone(w)
    \/ \E j \in JobIds :
          \/ ExecStart(w, j)
          \/ ExecValidate(w, j)
          \/ ExecRespond(w, j)
          \/ ExecCommit(w, j)
          \/ ExecFailCommit(w, j)

\* The clock advances and the live worker's event loop and threads are
\* scheduled; nothing is assumed of the other worker.
SpecRecovery ==
    /\ Init
    /\ [][NextRecovery]_vars
    /\ WF_vars(Tick)
    /\ WF_vars(LoopStep(LiveWorker))

\* ------------------------------------------------------ batches of jobs

\* Three games inside their windows, none enqueued yet; one run_worker
\* process polls within one clock instant.
InitBatch ==
    /\ Init!1
    /\ games = [g \in BatchGameIds |->
                  [provider |-> "espn", status |-> "scheduled",
                   start_time_utc |-> GameStart(1)]]
    /\ Init!3 /\ Init!4
    /\ wpc = [w \in Workers |-> IF w = "w1" THEN "poll" ELSE "off"]
    /\ Init!6 /\ Init!7
    /\ Init!8 /\ Init!9 /\ Init!10 /\ Init!11 /\ Init!12 /\ Init!13

NextBatch ==
    \/ \E g \in BatchGameIds : Enqueue(g)
    \/ \E w \in Workers : RunWorkerClaimSelect(w)
    \/ \E w \in Workers : ClaimCommit(w)
    \/ \E w \in Workers : BatchDone(w)
    \/ \E w \in Workers, j \in JobIds : ExecStart(w, j)
    \/ \E w \in Workers, j \in JobIds : ExecValidate(w, j)
    \/ \E w \in Workers, j \in JobIds : ExecRespond(w, j)
    \/ \E w \in Workers, j \in JobIds : ExecCommit(w, j)
    \/ \E w \in Workers, j \in JobIds : ExecFailCommit(w, j)

SpecBatch == InitBatch /\ [][NextBatch]_vars

\* --------------------------------------------- one call of the enqueue

\* A game that starts one second after its window length, and instants
\* before, at and after both ends of that window.
EnqueueStarts == {NoTime, timedelta_hours(pregame_window_hours) + 1}
EnqueueNows ==
    {0, 1, timedelta_hours(1), timedelta_hours(pregame_window_hours) + 1,
     timedelta_hours(pregame_window_hours) + 2}
GameStatuses == {"scheduled", "SCHEDULED", "in_progress", "postponed"}

\* What the store can hold for the game when the pass reaches it: nothing, a
\* queued job, a running job, a failed job, a done job without a pick (a
\* skipped game), or a done or failed job with the game's pick.
EnqueueStores ==
    { [jobs |-> <<>>, picks |-> <<>>],
      [jobs |-> <<NewJob(1, 0)>>, picks |-> <<>>],
      [jobs |-> <<Claimed(NewJob(1, 0), 0, "w1")>>, picks |-> <<>>],
      [jobs |-> <<[NewJob(1, 0) EXCEPT !.status = "done",
                                        !.last_error = <<"Skipped game status=",
                                                         "postponed">>]>>,
       picks |-> <<>>],
      [jobs |-> <<[NewJob(1, 0) EXCEPT !.status = "failed",
                                        !.attempts = auto_picks_max_retries + 1,
                                        !.last_error = ClientError]>>,
       picks |-> <<PickRow(1, _coerce_no_odds(NoAi, "odds"))>>],
      [jobs |-> <<[NewJob(1, 0) EXCEPT !.status = "failed",
                                        !.attempts = auto_picks_max_retries + 1,
                                        !.last_error = ClientError]>>,
       picks |-> <<>>] }
    \cup
    { [jobs |-> <<[NewJob(1, 0) EXCEPT !.status = "done"]>>,
       picks |-> <<PickRow(1, _coerce_no_odds(ai, "odds"))>>] : ai \in AiResponses }

InitEnqueueCall ==
    /\ now \in EnqueueNows
    /\ games \in [GameIds -> [provider : {"espn"}, status : GameStatuses,
                              start_time_utc : EnqueueStarts]]
    /\ \E store \in EnqueueStores : jobs = store.jobs /\ picks = store.picks
    /\ Init!5 /\ Init!6 /\ Init!7 /\ Init!8 /\ Init!9 /\ Init!10 /\ Init!11
    /\ Init!12 /\ Init!13

\* One call of _enqueue_for_game by a pass, and the commit of the pass: the
\* call returns True with the job added or reset, or False with no change.
EnqueueCall(p, g) ==
    /\ enq[p] = NoPass
    /\ \/ /\ _enqueue_for_game(g, now, pregame_window_hours)
          /\ enq' = [enq EXCEPT ![p] = [NoPass EXCEPT !.game_id = g, !.result = "True"]]
       \/ /\ ~ENABLED _enqueue_for_game(g, now, pregame_window_hours)
          /\ enq' = [enq EXCEPT ![p] = [NoPass EXCEPT !.game_id = g, !.result = "False"]]
          /\ UNCHANGED <<jobs, resets>>
    /\ UNCHANGED <<stop_event, now, games, picks, wpc, loaded, ex, win, cl, api_key_enc>>

NextEnqueueCall == \E p \in Passes, g \in GameIds : EnqueueCall(p, g)

SpecEnqueueCall == InitEnqueueCall /\ [][NextEnqueueCall]_vars

\* ------------------------------------------------- one claim per worker

\* Rows the pick_jobs table can hold for game g after one tick: queued since
\* the start or since the tick, running under the lock of a process that is
\* gone, done, or failed.
StoredRows(g) ==
    {[NewJob(g, t) EXCEPT !.status = "queued"] : t \in {0, TickSeconds}}
    \cup {Claimed(NewJob(g, 0), t, "w3") : t \in {0, TickSeconds}}
    \cup {[NewJob(g, 0) EXCEPT !.status = "done"]}
    \cup {Failed([NewJob(g, 0) EXCEPT !.attempts = auto_picks_max_retries],
                 ClientError, 0, auto_picks_max_retries)}

StoredTables ==
    {t \in [JobIds -> UNION {StoredRows(g) : g \in BatchGameIds}] :
        \A i \in JobIds : t[i].game_id = i}

\* Two run_worker_with_shutdown loops that have run their reaper and are
\* about to claim from a table of three jobs.
InitClaim ==
    /\ now \in {TickSeconds, 2 * TickSeconds}
    /\ games = [g \in BatchGameIds |->
                  [provider |-> "espn", status |-> "scheduled",
                   start_time_utc |-> 2 * TickSeconds]]
    /\ \E t \in StoredTables : jobs = [i \in JobIds |-> t[i]]
    /\ Init!4
    /\ wpc = [w \in Workers |-> IF w \in Started THEN "claim" ELSE "off"]
    /\ Init!6 /\ Init!7 /\ Init!8 /\ Init!9 /\ Init!10 /\ Init!11 /\ Init!12 /\ Init!13

NextClaim ==
    \/ \E w \in Workers : ClaimSelect(w)
    \/ \E w \in Workers : ClaimCommit(w)

SpecClaim == InitClaim /\ [][NextClaim]_vars

\* ------------------------------------------- execution of a stored job

\* What the games table can hold for a job's game when the job is executed:
\* any provider, status and start, or no row at all (the job of game 2).
Providers == {"espn", "manual"}
StoredJobs == {<<NewJob(1, 0)>>, <<NewJob(2, 0)>>}

\* Two run_worker processes and one queued job, at an instant before, in or
\* after the window of its game.
InitExecute ==
    /\ now \in EnqueueNows
    /\ games \in [GameIds -> [provider : Providers, status : GameStatuses,
                              start_time_utc : EnqueueStarts]]
    /\ jobs \in StoredJobs
    /\ Init!4 /\ Init!5 /\ Init!6 /\ Init!7 /\ Init!8 /\ Init!9 /\ Init!10
    /\ Init!11 /\ Init!12 /\ Init!13

NextExecute ==
    \/ \E w \in Workers : RunWorkerClaimSelect(w)
    \/ \E w \in Workers : ClaimCommit(w)
    \/ \E w \in Workers : BatchDone(w)
    \/ \E w \in Workers, j \in JobIds : ExecStart(w, j)
    \/ \E w \in Workers, j \in JobIds : ExecValidate(w, j)
    \/ \E w \in Workers, j \in JobIds : ExecRespond(w, j)
    \/ \E w \in Workers, j \in JobIds : ExecCommit(w, j)
    \/ \E w \in Workers, j \in JobIds : ExecFailCommit(w, j)

SpecExecute == InitExecute /\ [][NextExecute]_vars

\* ------------------------------------------ a crash inside an execution

\* The process dies after _upsert_pick has filled the session and before
\* db.commit() (lines 261-268): the session is discarded with what it held.
ExecCrash(w, j) ==
    /\ ex[w][j].pc = "upserting"
    /\ ex' = [ex EXCEPT ![w] = [i \in JobIds |-> NoExec]]
    /\ wpc' = [wpc EXCEPT ![w] = "crashed"]
    /\ UNCHANGED <<stop_event, now, games, jobs, picks, loaded, resets, win, cl,
                   api_key_enc, enq>>

NextCrash ==
    \/ NextRunWorker
    \/ \E w \in Workers, j \in JobIds : ExecCrash(w, j)

SpecCrash == Init /\ [][NextCrash]_vars

\* ------------------------------------------- the stop event of one loop

\* The process whose loop is handed the stop event.
StoppedWorker == "w1"

\* stop_event is an asyncio.Event, set by a coroutine or callback of the
\* loop's own event loop.  Lines 343-381 run from the test of the event to
\* the return of _claim_jobs without an await, so the event is set only while
\* the loop is suspended: before its first cycle, in one of its idle waits
\* (lines 352-366, 400-407) or in asyncio.gather (line 416).
StopInLoop ==
    /\ wpc[StoppedWorker] \in {"poll", "gather"}
    /\ Stop

\* One process with or without a stored key, and a store that is empty or
\* holds the job an earlier process claimed and left running.  The wait of a
\* loop whose settings have picks disabled is the wait of a loop without a
\* key.
InitStop ==
    /\ Init!1 /\ Init!2
    /\ jobs \in {<<>>, <<Claimed(NewJob(1, 0), 0, "w2")>>}
    /\ Init!4
    /\ wpc = [w \in Workers |-> IF w = StoppedWorker THEN "poll" ELSE "off"]
    /\ Init!6 /\ Init!7 /\ Init!8 /\ Init!9 /\ Init!10
    /\ api_key_enc \in {NoKey, ValidToken}
    /\ Init!12 /\ Init!13

NextStop ==
    \/ Tick
    \/ \E g \in GameIds : Enqueue(g)
    \/ \E w \in Workers : ReapSelect(w)
    \/ \E w \in Workers : ReapCommit(w)
    \/ \E w \in Workers : ClaimSelect(w)
    \/ \E w \in Workers : ClaimCommit(w)
    \/ \E w \in Workers : BatchDone(w)
    \/ \E w \in Workers, j \in JobIds : ExecStart(w, j)
    \/ \E w \in Workers, j \in JobIds : ExecValidate(w, j)
    \/ \E w \in Workers, j \in JobIds : ExecRespond(w, j)
    \/ \E w \in Workers, j \in JobIds : ExecCommit(w, j)
    \/ \E w \in Workers, j \in JobIds : ExecFailCommit(w, j)
    \/ StopInLoop
    \/ \E w \in Workers : LoopExit(w)

\* One step of the loop with a stop event or of an executor of its batch.
StopLoopStep(w) ==
    \/ ReapSelect(w)
    \/ ReapCommit(w)
    \/ ClaimSelect(w)
    \/ ClaimCommit(w)
    \/ BatchDone(w)
    \/ LoopExit(w)
    \/ \E j \in JobIds :
          \/ ExecStart(w, j)
          \/ ExecValidate(w, j)
          \/ ExecRespond(w, j)
          \/ ExecCommit(w, j)
          \/ ExecFailCommit(w, j)

\* The event loop and the executor threads of the process are scheduled, and
\* every upstream call returns or raises.
SpecStop ==
    /\ InitStop
    /\ [][NextStop]_vars
    /\ WF_vars(StopLoopStep(StoppedWorker))

\* ================================================================= claims

\* The job an executor state belongs to is past the ownership check of
\* _process_job_sync and has not yet made its final commit.
InFlight(w, j) == ex[w][j].pc \in {"checked", "calling", "upserting", "failing"}

\* Steps of an executor invocation, read off two consecutive states.
CallStep(w, j) == ex[w][j].pc = "checked" /\ ex'[w][j].pc = "calling"
WriteStep(w, j) == ex[w][j].pc = "upserting" /\ ex'[w][j].pc = "none"
FailStep(w, j) == ex[w][j].pc = "failing" /\ ex'[w][j].pc = "none"

\* C1: a job is running if and only if locked_at_utc and lock_owner are both
\* set; a queued, done or failed job has both null.
C1_LockedIffRunning ==
    \A j \in DOMAIN jobs :
        /\ jobs[j].status = "running" <=>
              (jobs[j].locked_at_utc # NoTime /\ jobs[j].lock_owner # NoOwner)
        /\ jobs[j].status \in {"queued", "done", "failed"} =>
              (jobs[j].locked_at_utc = NoTime /\ jobs[j].lock_owner = NoOwner)

\* C2: the job ids two workers' claim calls return are disjoint: no job is
\* in the batch of tasks of both workers (under run_worker, where a job
\* leaves running only through its own executor).
C2_ClaimsDisjoint ==
    \A j \in JobIds : \A w1, w2 \in Workers :
        (ex[w1][j].pc # "none" /\ ex[w2][j].pc # "none") => w1 = w2

\* C3: no two executor invocations are at once past the ownership check and
\* before their final commit for the same job.
C3_OneExecutionPerJob ==
    \A j \in JobIds : \A w1, w2 \in Workers :
        (InFlight(w1, j) /\ InFlight(w2, j)) => w1 = w2

\* C4: a game's result is persisted exactly once: once the game has a pick,
\* no execution calls the reasoning service for it or writes its pick.
C4_PersistedOnce ==
    [][\A w \in Workers, j \in DOMAIN jobs :
          PicksOf(jobs[j].game_id) # {} => ~(CallStep(w, j) \/ WriteStep(w, j))]_vars

ReapSelectStep(w) == wpc[w] = "poll" /\ wpc'[w] \in {"claim", "reaping"}
ReapCommitStep(w) == wpc[w] = "reaping" /\ wpc'[w] = "claim"

C6_RetryPolicy ==
    [][\A w \in Workers, j \in DOMAIN jobs :
          FailStep(w, j) =>
              /\ jobs'[j].attempts = jobs[j].attempts + 1
              /\ IF jobs'[j].attempts <= auto_picks_max_retries
                 THEN jobs'[j].status = "queued" /\ jobs'[j].run_at_utc = now
                 ELSE jobs'[j].status = "failed"]_vars

\* C7: attempts never exceeds max_retries + 1, and a failed job has exactly
\* max_retries + 1 attempts.
C7_AttemptsBounded ==
    \A j \in DOMAIN jobs :
        /\ jobs[j].attempts <= auto_picks_max_retries + 1
        /\ jobs[j].status = "failed" => jobs[j].attempts = auto_picks_max_retries + 1

\* C8: the pre-game window check returns true exactly when
\* start - window <= now <= start, and false when the start time is absent.
C8_WindowInclusive ==
    win.returned =>
        (win.result <=>
            /\ win.game_start_utc # NoTime
            /\ win.game_start_utc - win.hours * SecondsPerHour <= win.now_utc
            /\ win.now_utc <= win.game_start_utc)

\* The window check has returned true at the first instant of a window of
\* positive length.
C8_Witness ==
    /\ win.returned /\ win.result
    /\ win.hours > 0
    /\ win.now_utc = win.game_start_utc - win.hours * SecondsPerHour

StartStep(w, j) == ex[w][j].pc = "pending" /\ ex'[w][j].pc # "pending"
ValidateStep(w, j) == ex[w][j].pc = "checked" /\ ex'[w][j].pc # "checked"
CountOf(x, s) == Cardinality({k \in DOMAIN s : s[k] = x})

\* C9: when the request payload has no odds, the pick an execution persists
\* has result NO_BET, stake_u 0, is_value false and "odds" exactly once in
\* its missing-data list.
C9_NoOddsCoerced ==
    [][\A w \in Workers, j \in DOMAIN jobs :
          (WriteStep(w, j) /\ build_game_payload(games[jobs[j].game_id]).odds = NoOdds) =>
              LET i == IF ex[w][j].found = 0 THEN Len(picks') ELSE ex[w][j].found
                  pick == picks'[i]
              IN  /\ pick.game_id = jobs[j].game_id
                  /\ pick.result = "NO_BET"
                  /\ pick.stake_u = 0
                  /\ pick.is_value = FALSE
                  /\ CountOf("odds", pick.missing_data_json) = 1]_vars

\* C9 as the code has it: the persisted pick has result NO_BET, stake_u 0 and
\* is_value false, and its missing-data list is the returned list with "odds"
\* appended when the returned list did not contain it: "odds" occurs once if
\* the client returned it at most once, and as often as returned otherwise.
C9_OddsAppendedIfAbsent ==
    [][\A w \in Workers, j \in DOMAIN jobs :
          (WriteStep(w, j) /\ build_game_payload(games[jobs[j].game_id]).odds = NoOdds) =>
              LET i == IF ex[w][j].found = 0 THEN Len(picks') ELSE ex[w][j].found
                  pick == picks'[i]
                  returned == ex[w][j].raw.missing_data
              IN  /\ pick.game_id = jobs[j].game_id
                  /\ pick.result = "NO_BET"
                  /\ pick.stake_u = 0
                  /\ pick.is_value = FALSE
                  /\ IF CountOf("odds", returned) = 0
                     THEN pick.missing_data_json = returned \o <<"odds">>
                     ELSE pick.missing_data_json = returned]_vars

\* A pick was persisted from a payload that came back as a staked LEAN with
\* another label in its missing-data list.
C9_Witness ==
    \E i \in DOMAIN picks :
        /\ picks[i].missing_data_json = <<"injuries", "odds">>
        /\ picks[i].result = "NO_BET"
        /\ picks[i].stake_u = 0

\* C10: executing a running job whose game already has a pick (game still
\* scheduled and inside its window) makes no upstream call, leaves the picks
\* as they are and marks the job done; executing the job id again, now done,
\* changes nothing.
C10_ExistingPickShortCircuit ==
    [][\A w \in Workers, j \in DOMAIN jobs :
          LET g == jobs[j].game_id
          IN  /\ ( /\ ValidateStep(w, j)
                   /\ PicksOf(g) # {}
                   /\ Lower(games[g].status) = "scheduled"
                   /\ _is_in_pregame_window(games[g].start_time_utc, now,
                                            pregame_window_hours) ) =>
                     /\ ex'[w][j].pc = "none"
                     /\ picks' = picks
                     /\ jobs'[j].status = "done"
              /\ (StartStep(w, j) /\ jobs[j].status = "done") =>
                     /\ ex'[w][j].pc = "none"
                     /\ picks' = picks
                     /\ jobs' = jobs]_vars

\* The call of request_pick that ended last timed out twice and then got a
\* complete response.
TimedOutTwiceThenSucceeded ==
    /\ Len(cl.posts) = 3
    /\ cl.posts[1].outcome = Timeout
    /\ cl.posts[2].outcome = Timeout
    /\ cl.posts[3].outcome \in OkResponses

ReturnStep(w, j) == ex[w][j].pc = "calling" /\ ex'[w][j].pc # "calling"

\* C11: for a scheduled game starting at T with window 2h and now = T - 1h
\* the enqueued job is claimable; when the request times out twice and then
\* succeeds, that one call returns the successful result, the Pick is
\* persisted with that result and the job ends done.
C11_EndToEnd ==
    [][\A w \in Workers, j \in JobIds :
          /\ (jobs = <<>> /\ jobs' # <<>>) =>
                 /\ jobs'[1].status = "queued"
                 /\ jobs'[1].run_at_utc <= now
          /\ (ReturnStep(w, j) /\ cl.pc = "returned" /\ TimedOutTwiceThenSucceeded) =>
                 /\ ex'[w][j].pc = "upserting"
                 /\ ex'[w][j].raw = cl.posts[3].outcome.parsed
          /\ (WriteStep(w, j) /\ TimedOutTwiceThenSucceeded) =>
                 LET r == cl.posts[3].outcome.parsed
                     pick == picks'[Len(picks')]
                 IN  /\ Len(picks') = 1
                     /\ pick.game_id = jobs[j].game_id
                     /\ pick.result = r.result
                     /\ pick.stake_u = r.stake_u
                     /\ pick.is_value = r.is_value
                     /\ pick.missing_data_json = r.missing_data
                     /\ jobs'[j].status = "done"]_vars

\* C11 as the code has it: the Pick persisted is the successful result after
\* the no-odds coercion (the request payload never carries odds): result
\* NO_BET, stake_u 0, is_value false, "odds" in the missing-data list.
C11_EndToEndCoerced ==
    [][\A w \in Workers, j \in JobIds :
          /\ (jobs = <<>> /\ jobs' # <<>>) =>
                 /\ jobs'[1].status = "queued"
                 /\ jobs'[1].run_at_utc <= now
          /\ (ReturnStep(w, j) /\ cl.pc = "returned" /\ TimedOutTwiceThenSucceeded) =>
                 /\ ex'[w][j].pc = "upserting"
                 /\ ex'[w][j].raw = cl.posts[3].outcome.parsed
          /\ (WriteStep(w, j) /\ TimedOutTwiceThenSucceeded) =>
                 LET r == cl.posts[3].outcome.parsed
                     pick == picks'[Len(picks')]
                 IN  /\ Len(picks') = 1
                     /\ pick.game_id = jobs[j].game_id
                     /\ pick.result = "NO_BET"
                     /\ pick.stake_u = 0
                     /\ pick.is_value = FALSE
                     /\ pick.missing_data_json \in
                            {r.missing_data, Append(r.missing_data, "odds")}
                     /\ InSeq("odds", pick.missing_data_json)
                     /\ jobs'[j].status = "done"]_vars

\* The job is done and its Pick persisted from a call that timed out twice
\* and then returned a staked BET.
C11_Witness ==
    /\ TimedOutTwiceThenSucceeded
    /\ cl.pc = "idle"
    /\ cl.sleeps = <<1, 2>>
    /\ cl.posts[3].outcome.parsed.result = "BET"
    /\ Len(jobs) = 1 /\ jobs[1].status = "done" /\ jobs[1].attempts = 0
    /\ Len(picks) = 1 /\ picks[1].result = "NO_BET"

\* C12: there is at most one PickJob row per game_id in every reachable
\* state, also when two enqueue passes both found no job for the game before
\* either committed.
C12_OneJobPerGame ==
    \A g \in GameIds : Cardinality(JobsOf(g)) <= 1

\* A pass that had found no job for the game lost its INSERT to the unique
\* constraint: the other pass had committed the game's row.
C12_Witness ==
    \E p \in Passes :
        /\ enq[p].result = "IntegrityError"
        /\ Len(jobs) = 1

\* C13: there is at most one Pick row per game_id in every reachable state,
\* also when two executions for the game both pass the existing-Pick check
\* before either commits its upsert.
C13_OnePickPerGame ==
    \A g \in GameIds : Cardinality(PicksOf(g)) <= 1

\* C14: once a job is done or failed, no claim, reap or executor step of any
\* worker changes its status; only the enqueue pass's reset of a failed job
\* (counted in resets) does.
C14_TerminalStatuses ==
    [][\A j \in DOMAIN jobs :
          (jobs[j].status \in {"done", "failed"} /\ resets' = resets) =>
              jobs'[j].status = jobs[j].status]_vars

TimedOut(posts) == {i \in DOMAIN posts : posts[i].outcome = Timeout}
TimeoutError == "OpenAI request failed after retries due to timeout"

Ended == cl.pc \in {"returned", "raised"}
Incomplete(outcome) ==
    /\ outcome \in ErrorResponses
    /\ outcome.is_json /\ outcome.status_code = 200
    /\ outcome.status = "incomplete"

\* C16: a well-formed response marked incomplete is followed by one more
\* request, and the call returns that second response's parsed result when
\* it is complete.
C16_IncompleteRetry ==
    \A i \in DOMAIN cl.posts :
        (Ended /\ Incomplete(cl.posts[i].outcome)) =>
            /\ i < Len(cl.posts)
            /\ cl.posts[i + 1].outcome \in OkResponses =>
                   (cl.pc = "returned" /\ cl.parsed = cl.posts[i + 1].outcome.parsed)

TerminalErrors ==
    { "OpenAI API error: non-JSON response", "OpenAI API returned non-JSON response",
      "OpenAI API error", "OpenAI response missing output_text",
      "OpenAI response was not valid JSON" }

C18_ConnectionErrorRetried ==
    \A i \in DOMAIN cl.posts :
        (Ended /\ cl.posts[i].outcome = ConnectionError /\ i < OPENAI_MAX_ATTEMPTS) =>
            i < Len(cl.posts)

\* C19: while the stored key is absent or does not decrypt, no worker claims
\* a job and no job's attempts counter is incremented or status set failed.
C19_NoKeyNoClaim ==
    decrypt_api_key(api_key_enc) = NoKey =>
        /\ \A w \in Workers : wpc[w] \notin {"claiming", "gather"}
        /\ \A j \in DOMAIN jobs :
              /\ jobs[j].status = "queued"
              /\ jobs[j].attempts = 0

\* C20: no failure of a job execution, a store error while the failure is
\* recorded included, ends a worker's scheduler loop.
C20_LoopSurvivesJobFailures ==
    \A w \in Workers : wpc[w] # "crashed"

\* C21: a loop that has exited on the stop event has no executor invocation
\* of its batch left unfinished, and no job is running under its lock_owner.
C21_ExitAfterBatch ==
    \A w \in Workers :
        wpc[w] = "stopped" =>
            /\ \A j \in JobIds : ex[w][j].pc = "none"
            /\ \A j \in DOMAIN jobs :
                  ~(jobs[j].status = "running" /\ jobs[j].lock_owner = w)

\* A loop has exited on the stop event after it executed a job to its commit.
C21_Witness ==
    /\ wpc["w1"] = "stopped"
    /\ \E j \in DOMAIN jobs : jobs[j].status = "done" /\ jobs[j].lock_owner = "w1"

\* A worker loop's claim call selects at least one job.
ClaimSelectStep(w) == wpc[w] # "claiming" /\ wpc'[w] = "claiming"

\* C22: a worker loop claims only from the position it is in once the reaper
\* has run in the cycle: no claim is made in a cycle before a reap.
C22_ReapBeforeClaim ==
    [][\A w \in Workers : ClaimSelectStep(w) => wpc[w] = "claim"]_vars

\* The job is running under the lock of the worker that is not alive, and
\* its lock is older than the stale timeout.
LeftBehind(j) ==
    /\ j \in DOMAIN jobs
    /\ jobs[j].status = "running"
    /\ jobs[j].lock_owner = DeadWorker
    /\ wpc[DeadWorker] = "crashed"
    /\ jobs[j].locked_at_utc <= now - _RUNNING_STALE_TIMEOUT_SECONDS

\* C23: a job left running by a crashed worker, its lock older than the stale
\* timeout, eventually leaves that state while a live worker keeps cycling:
\* it is queued again or running under the live worker (or, as a goal weaker
\* than the claim's, settled as done or failed by an execution of the live
\* worker that overlapped the crashed one).
C23_StaleJobRecovered ==
    \A j \in 1 .. Cardinality(GameIds) :
        LeftBehind(j) ~>
            /\ j \in DOMAIN jobs
            /\ \/ jobs[j].status \in {"queued", "done", "failed"}
               \/ jobs[j].status = "running" /\ jobs[j].lock_owner = LiveWorker

\* The jobs that are running under worker w's lock.
RunningUnder(w) ==
    {j \in DOMAIN jobs : jobs[j].status = "running" /\ jobs[j].lock_owner = w}

\* C24: at no time does a worker have more than `concurrency` executor
\* invocations in flight, or more than `concurrency` jobs running under its
\* lock_owner.
C24_ConcurrencyBound ==
    \A w \in Workers :
        /\ Cardinality(Executing(w)) <= auto_picks_concurrency
        /\ Cardinality(RunningUnder(w)) <= auto_picks_concurrency

\* A worker has as many invocations in flight as its concurrency allows
\* while a further job is queued and due.
C24_Witness ==
    \E w \in Workers :
        /\ Cardinality(Executing(w)) = auto_picks_concurrency
        /\ Cardinality(RunningUnder(w)) = auto_picks_concurrency
        /\ Eligible(now) # {}

\* A pass's call of _enqueue_for_game for game g returns.
EnqueueCallStep(p, g) ==
    /\ enq[p] = NoPass
    /\ enq'[p].result \in {"True", "False"}
    /\ enq'[p].game_id = g

\* The game has a start time, is scheduled, and now is inside its window.
Admissible(g) ==
    /\ games[g].start_time_utc # NoTime
    /\ Lower(games[g].status) = "scheduled"
    /\ games[g].start_time_utc - timedelta_hours(pregame_window_hours) <= now
    /\ now <= games[g].start_time_utc

\* C25: a call of _enqueue_for_game adds or re-queues a job only for a game
\* with a start time, status scheduled and now inside [start - window,
\* start]; for any other game it returns False and leaves the jobs as they
\* were.
C25_EnqueueOnlyAdmissible ==
    [][\A p \in Passes, g \in GameIds :
          EnqueueCallStep(p, g) =>
              /\ (enq'[p].result = "True" \/ jobs' # jobs) => Admissible(g)
              /\ ~Admissible(g) => enq'[p].result = "False" /\ jobs' = jobs]_vars

\* A call for a game in progress, inside its window, has returned False and
\* the failed job of the game is as it was.
C25_Witness ==
    /\ games[1].status = "in_progress"
    /\ games[1].start_time_utc # NoTime
    /\ now = games[1].start_time_utc
    /\ \E p \in Passes : enq[p].result = "False" /\ enq[p].game_id = 1
    /\ Len(jobs) = 1 /\ jobs[1].status = "failed"

\* The job ids a claim call of worker w has selected and will return.
Returned(w) == {j \in JobIds : loaded[w][j] # NoRow}

ClaimCommitStep(w) == wpc[w] = "claiming" /\ wpc'[w] = "gather"
ClaimEmptyStep(w) == wpc[w] = "claim" /\ wpc'[w] = "poll"

\* C26: a claim call returns at most `concurrency` jobs, each queued with
\* run_at_utc <= now when the call selected it and running with
\* locked_at_utc = now under the caller's lock_owner once the call has
\* committed; it leaves every other job as it was, and with no eligible job
\* it returns no job and changes nothing.
C26_ClaimFrame ==
    [][\A w \in Workers :
          /\ ClaimSelectStep(w) =>
                /\ Cardinality(Returned(w)') <= auto_picks_concurrency
                /\ \A j \in Returned(w)' :
                      /\ j \in DOMAIN jobs
                      /\ jobs[j].status = "queued"
                      /\ jobs[j].run_at_utc <= now
                /\ jobs' = jobs
          /\ ClaimCommitStep(w) =>
                \A j \in DOMAIN jobs :
                    IF j \in Returned(w)
                    THEN /\ jobs'[j].status = "running"
                         /\ jobs'[j].locked_at_utc = now
                         /\ jobs'[j].lock_owner = w
                         /\ ex'[w][j].pc = "pending"
                    ELSE /\ jobs'[j] = jobs[j]
                         /\ ex'[w][j].pc = "none"
          /\ ClaimEmptyStep(w) =>
                /\ Eligible(now) = {}
                /\ Returned(w)' = {}
                /\ jobs' = jobs /\ ex' = ex
          /\ (wpc[w] = "claim" /\ Eligible(now) = {}) =>
                wpc'[w] \in {"claim", "poll"} /\ (wpc'[w] = "poll" => jobs' = jobs)]_vars

\* A claim has returned as many jobs as its limit allows and left a third,
\* eligible one queued.
C26_Witness ==
    \E w \in Workers :
        /\ wpc[w] = "gather"
        /\ Cardinality({j \in JobIds : ex[w][j].pc = "pending"}) = auto_picks_concurrency
        /\ Cardinality(RunningUnder(w)) = auto_picks_concurrency
        /\ Eligible(now) # {}

\* C27: a claim call leaves no eligible job queued whose run_at_utc is
\* earlier than that of a job it claimed, nor one with the same run_at_utc
\* that was inserted earlier (has the smaller id).
C27_FifoByDueTime ==
    [][\A w \in Workers :
          ClaimSelectStep(w) =>
              \A a \in Returned(w)', b \in Eligible(now) \ Returned(w)' :
                  /\ jobs[a].run_at_utc <= jobs[b].run_at_utc
                  /\ jobs[a].run_at_utc = jobs[b].run_at_utc => a < b]_vars

\* The job is running and its lock is at least the stale timeout old.
Stale(j) ==
    /\ jobs[j].status = "running"
    /\ jobs[j].locked_at_utc # NoTime
    /\ jobs[j].locked_at_utc <= now - _RUNNING_STALE_TIMEOUT_SECONDS

\* C28: a reap call selects, and counts, exactly the jobs that are running
\* with a lock at least the stale timeout old, and its commit writes only to
\* such jobs: it leaves them queued with run_at_utc = now and both lock
\* fields null, and leaves every queued, done or failed job and every running
\* job with a younger lock as it was.
C28_ReapFrame ==
    [][\A w \in Workers :
          /\ ReapSelectStep(w) =>
                /\ Returned(w)' = {j \in DOMAIN jobs : Stale(j)}
                /\ jobs' = jobs
          /\ ReapCommitStep(w) =>
                \A j \in DOMAIN jobs :
                    IF Stale(j)
                    THEN /\ jobs'[j].status = "queued"
                         /\ jobs'[j].run_at_utc = now
                         /\ jobs'[j].locked_at_utc = NoTime
                         /\ jobs'[j].lock_owner = NoOwner
                    ELSE jobs'[j] = jobs[j]]_vars

\* Sequence t occurs in sequence s as a run of consecutive elements.
Contains(s, t) ==
    \E k \in 0 .. Len(s) - Len(t) : SubSeq(s, k + 1, k + Len(t)) = t

\* C29: when a reap call recovers a job (that no other session has written
\* since the call selected it), the job's last_error afterwards holds the
\* note naming the previous and the recovering lock owner, and still holds
\* the error summary the job carried before.
C29_ReapAppendsNote ==
    [][\A w \in Workers, j \in DOMAIN jobs :
          (ReapCommitStep(w) /\ j \in Returned(w) /\ jobs[j] = loaded[w][j]) =>
              /\ Contains(jobs'[j].last_error,
                          <<"Recovered stale running job", loaded[w][j].lock_owner, w>>)
              /\ jobs[j].last_error # NoError =>
                    Contains(jobs'[j].last_error, jobs[j].last_error)]_vars

\* C30: an executor invocation that finds its job missing, not running, or
\* running under another worker's lock_owner ends there: it makes no request
\* to the reasoning service and changes no job and no pick.
C30_OwnershipCheck ==
    [][\A w \in Workers, j \in JobIds :
          (/\ StartStep(w, j)
           /\ \/ j \notin DOMAIN jobs
              \/ jobs[j].status # "running"
              \/ jobs[j].lock_owner # w) =>
              /\ ex'[w][j] = NoExec
              /\ jobs' = jobs /\ picks' = picks /\ cl' = cl]_vars

\* A worker's invocation has ended at the ownership check: its batch is still
\* open, the job it claimed runs under another worker's lock and carries no
\* trace of an execution.
C30_Witness ==
    \E w, v \in Workers, j \in DOMAIN jobs :
        /\ w # v
        /\ wpc[w] = "gather" /\ ex[w][j].pc = "none"
        /\ jobs[j].status = "running" /\ jobs[j].lock_owner = v
        /\ ex[v][j].pc = "pending"
        /\ jobs[j].attempts = 0 /\ jobs[j].last_error = NoError
        /\ picks = <<>>

\* The game of a job is stored, comes from the expected provider, is
\* scheduled and now is inside its pre-game window.
Revalidated(g) ==
    /\ g \in DOMAIN games
    /\ games[g].provider = "espn"
    /\ Admissible(g)

\* C31: an execution calls the reasoning service only for a game that, at
\* that moment, has the expected provider, status scheduled and now inside
\* its window; for a stored game that fails one of these the execution ends
\* with the job done and the explanation of the skip in last_error, without
\* a call, without a pick written and with attempts as it was.
C31_RevalidateBeforeCall ==
    [][\A w \in Workers, j \in DOMAIN jobs :
          /\ CallStep(w, j) => Revalidated(jobs[j].game_id)
          /\ (/\ ValidateStep(w, j)
              /\ jobs[j].game_id \in DOMAIN games
              /\ ~Revalidated(jobs[j].game_id)) =>
                /\ ex'[w][j] = NoExec
                /\ jobs'[j].status = "done"
                /\ jobs'[j].last_error \in
                      {<<"Skipped non-ESPN game">>,
                       <<"Skipped game status=", games[jobs[j].game_id].status>>,
                       <<"Skipped game outside pregame window">>}
                /\ jobs'[j].attempts = jobs[j].attempts
                /\ picks' = picks /\ cl' = cl]_vars

\* C32: an execution of a job whose game row is absent fails with the "game
\* not found" error: its failure commit adds one to attempts, stores that
\* error in last_error and re-queues the job while attempts <= max_retries,
\* else sets it failed; such a job is never done, and it is failed exactly
\* when max_retries + 1 executions have been counted.
C32_GameNotFoundFails ==
    [][\A w \in Workers, j \in DOMAIN jobs :
          jobs[j].game_id \notin DOMAIN games =>
              /\ jobs'[j].status # "done"
              /\ ValidateStep(w, j) =>
                    /\ ex'[w][j].pc = "failing"
                    /\ ex'[w][j].err = GameNotFound
              /\ FailStep(w, j) =>
                    /\ jobs'[j].attempts = jobs[j].attempts + 1
                    /\ jobs'[j].last_error = GameNotFound
                    /\ IF jobs'[j].attempts <= auto_picks_max_retries
                       THEN jobs'[j].status = "queued"
                       ELSE jobs'[j].status = "failed"
              /\ jobs'[j].status = "failed" =>
                    jobs'[j].attempts = auto_picks_max_retries + 1]_vars

\* C33: the failure commit of an execution adds exactly one to the job's
\* attempts, stores the failure summary in last_error, leaves locked_at_utc
\* and lock_owner null whether the job is re-queued or given up, and leaves
\* the picks table as it was.
C33_FailureRecorded ==
    [][\A w \in Workers, j \in DOMAIN jobs :
          FailStep(w, j) =>
              /\ jobs'[j].attempts = jobs[j].attempts + 1
              /\ jobs'[j].last_error = ex[w][j].err
              /\ jobs'[j].locked_at_utc = NoTime
              /\ jobs'[j].lock_owner = NoOwner
              /\ picks' = picks]_vars

\* C34: the pick of an execution and its job's status done become visible in
\* one step: the step that writes the pick leaves the job done and the game
\* with a pick, no other step changes the picks table, and a crash of the
\* process between the upsert and the commit changes neither table.
C34_PickAndDoneAtomic ==
    [][/\ \A w \in Workers, j \in DOMAIN jobs :
             WriteStep(w, j) /\ wpc'[w] # "crashed" =>
                 /\ jobs'[j].status = "done"
                 /\ \E i \in DOMAIN picks' :
                       picks'[i] = PickRow(jobs[j].game_id, ex[w][j].ai)
       /\ picks' # picks =>
             \E w \in Workers, j \in DOMAIN jobs :
                 /\ WriteStep(w, j) /\ wpc'[w] # "crashed"
                 /\ jobs'[j].status = "done"
       /\ \A w \in Workers :
             wpc'[w] = "crashed" /\ wpc[w] # "crashed" =>
                 picks' = picks /\ jobs' = jobs]_vars

\* One worker died between the upsert and the commit of its execution and
\* left no pick; the other worker's execution has committed the pick with
\* the job done.
C34_Witness ==
    \E w, v \in Workers, j \in DOMAIN jobs :
        /\ wpc[w] = "crashed" /\ wpc[v] # "crashed"
        /\ jobs[j].status = "done"
        /\ Cardinality(PicksOf(jobs[j].game_id)) = 1

\* C35: with the stop event set the loop issues no claim, neither its SELECT
\* nor its COMMIT, and the loop ends: after the executions of the batch in
\* flight, or from its idle wait when it has no key or found no job.
C35_StopEndsLoop ==
    /\ [][\A w \in Workers :
             stop_event =>
                 /\ ~(wpc[w] = "claim" /\ wpc'[w] # "claim")
                 /\ ~(wpc[w] = "claiming" /\ wpc'[w] # "claiming")]_vars
    /\ (stop_event ~> wpc[StoppedWorker] = "stopped")

\* The loop has ended on the stop event and has left a job that is queued
\* and due unclaimed.
C35_Witness ==
    /\ stop_event
    /\ wpc[StoppedWorker] = "stopped"
    /\ \E j \in DOMAIN jobs :
          jobs[j].status = "queued" /\ jobs[j].run_at_utc <= now

\* C36: every job in the store eventually is done or failed while the clock
\* advances and one live worker's loop and executors are scheduled fairly,
\* whatever the other worker does before it ends.
C36_EveryJobSettles ==
    \A j \in 1 .. Cardinality(GameIds) :
        (j \in DOMAIN jobs) ~>
            (j \in DOMAIN jobs /\ jobs[j].status \in {"done", "failed"})

\* A step of worker w's executor invocation for job j.
ExecutorStep(w, j) == ex[w][j].pc # "none" /\ ex'[w][j] # ex[w][j]

\* C37: a step of worker w's executor invocation changes a job's row only
\* when the store holds that job as running with lock_owner = w; once the job
\* has been reaped or claimed by another worker the invocation's completion
\* and failure commits leave the row as it is.
C37_WritesOnlyWhileOwner ==
    [][\A w \in Workers, j \in DOMAIN jobs :
          (ExecutorStep(w, j) /\ jobs'[j] # jobs[j]) =>
              (jobs[j].status = "running" /\ jobs[j].lock_owner = w)]_vars

\* C38: every row of the picks table has result NO_BET and stake_u 0: the
\* payload of every request has no odds, so every payload the client returns
\* is coerced before it is persisted.
C38_NoStakePersisted ==
    \A i \in DOMAIN picks :
        picks[i].result = "NO_BET" /\ picks[i].stake_u = 0

\* The pick persisted from the payload the client returned as a staked BET
\* that listed "odds" twice.
C38_Witness ==
    \E i \in DOMAIN picks :
        /\ picks[i].missing_data_json = <<"odds", "odds">>
        /\ picks[i].result = "NO_BET"
        /\ picks[i].stake_u = 0

\* The row _enqueue_for_game leaves when it resets a failed job.
ResetRow(g) ==
    [game_id |-> g, status |-> "queued", attempts |-> 0, run_at_utc |-> now,
     locked_at_utc |-> NoTime, lock_owner |-> NoOwner, last_error |-> NoError]

====
